---- MODULE Spec2Model ----
(***************************************************************************)
(* A model of the Gmail -> BigQuery ETL service (src/etl_service/main.py). *)
(*                                                                         *)
(* The service is modelled component by component, each component with its *)
(* own group of variables and its own specification:                       *)
(*   SpecLoad   one call of insert_into_bigquery (the Batch Loader)        *)
(*   SpecCrawl  one call of fetch_emails (the Mailbox Crawler)             *)
(*   Spec       runs of run_fetch (the Tenant Pipeline Orchestrator), one  *)
(*              after the other in one process                             *)
(*   SpecPool   the two thread pools of a run: the tenant tasks of line 300 *)
(*              and the detail requests of line 228                        *)
(*   SpecCache  calls of fetch_existing_email_ids through its cache, one   *)
(*              after the other, while time passes and the table grows     *)
(*   SpecCacheConcurrent  the same calls made by overlapping runs          *)
(*   SpecRunSequence  runs one after the other: the cached call, then the  *)
(*              tenant's crawl and load against the table                  *)
(*   SpecTask   one call of process_user_token: the crawl, then the load   *)
(*              of what it returned                                        *)
(*   SpecUpload the authorization tool (src/token_uploader/app.py) and the *)
(*              runs of the service on the Drive folder they share         *)
(* Every specification keeps the variables of the other components at      *)
(* their idle values.                                                      *)
(***************************************************************************)
EXTENDS Integers, Sequences, FiniteSets, TLC

(***************************************************************************)
(* Bounds of the model.                                                    *)
(***************************************************************************)
\* Largest BATCH_SIZE the environment configures (line 49 reads any int).
MaxBatchSize == 3
\* Longest record list handed to insert_into_bigquery.
MaxRows == 4
\* Most listing pages the provider serves for one mailbox.
MaxPages == 2
\* Most messages of one listing page (maxResults is 500 in line 168).
MaxPageLen == 3
\* The size of a detail-fetch sub-batch: line 178 sets 50, scaled down here so
\* that a page of MaxPageLen messages spans more than one sub-batch.
batch_size == 2
\* Most times the clock is advanced, and most calls of the cached function.
MaxTicks == 4
MaxCalls == 3
\* Most credential artifacts the Drive folder lists.
MaxTokens == 2
\* Most new records one tenant's crawl returns.
MaxEmails == 2
\* Widest outer pool the environment configures (line 48), and most detail
\* requests of one sub-batch (line 178 allows 50).
MaxWorkers == 2
MaxRequests == 6
\* The width of the pool of _batch_execute (line 228).
InnerWorkers == 5
\* The cache's time to live, in seconds (line 94).
timeout == 3600

VARIABLES
  \* ---- configuration (module level, lines 48-49)
  BATCH_SIZE,
  MAX_WORKERS,
  \* ---- insert_into_bigquery (lines 231-254)
  emails,        \* the argument email_data: the list of records to insert
  load_i,        \* the loop variable i of line 240
  inserted,      \* the local counter of line 238
  load_log,      \* history: the insert_rows_json calls and time.sleep(1) calls, in order
  load_pc,       \* "idle" | "call" | "loop" | "returned" | "raised", and
                 \* "skipped" when process_user_token did not call it
  \* ---- fetch_emails (lines 147-217)
  existing_email_ids,  \* the argument: the identifiers already in the warehouse
  email_data,    \* the dict of line 158, as its keys in insertion order
  next_page_token,     \* 0 for None, else the token the last response carried
  response_token,      \* response.get("nextPageToken") of the page in hand
  new_msg_ids,   \* line 175
  crawl_i,       \* the loop variable i of line 179
  crawl_result,  \* the returned list
  crawl_pc,      \* "idle" | "creds" | "list" | "details" | "returned"
  crawl_abort,   \* history: "none", or the step whose error ended the crawl
  list_calls,    \* history: messages().list requests made
  listed_ids,    \* history: identifiers the provider listed
  requested,     \* history: identifiers a detail request was issued for
  fetched_ok,    \* history: identifiers a detail request answered
  fetched_prev,  \* history: those answered on the pages before the one in hand
  http_failed,   \* history: identifiers a detail request failed for with HttpError
  last_page_seen,      \* history: a response without nextPageToken was received
  calls_after_last,    \* history: list requests made after that response
  pauses,        \* history: time.sleep(0.5) calls
  empty_page,    \* history: a listing response without messages was received
  \* ---- cache_with_timeout around fetch_existing_email_ids (lines 53-66, 94-104)
  cache,         \* the closure's dict: its one key's entry, if any
  now,           \* time.time()
  ticks,         \* how often the clock was advanced
  warehouse,     \* the identifiers in the table
  call_pc,       \* per caller: "idle" | "querying" | "returned"
  call_time,     \* per caller: current_time of line 59
  call_result,   \* per caller: the returned set
  call_prev,     \* history, per caller: the last warehouse query before the call
  call_queried,  \* history, per caller: warehouse queries the call made
  last_query,    \* history: the last warehouse query made
  queries,       \* history: warehouse queries made
  call_count,    \* history: calls begun
  inserted_rows, \* history: per identifier, the rows the runs have inserted for it
  failures,      \* history: the kinds of warehouse request that have failed
  \* ---- run_fetch and the service object (lines 68-73, 118-145, 270-322)
  initialized,   \* self._initialized: kept from one run to the next
  files,         \* the temporary files on disk: KeyFile, and a token file by its artifact's place in the listing
  run_pc,        \* "idle" | "initialize" | "existing" | "listing" | "download"
                 \* | "dispatch" | "tasks" | "cleanup" | "ended"
  token_files,   \* line 287: per listed artifact, whether its name ends in .json
  download_log,  \* history: how download_token ended for each artifact so far
  token_paths,   \* line 293: the names of the artifacts that were resolved
  task,          \* per submitted future: its state and its result
  total_inserted,      \* line 299
  status,        \* the response: "none" | "success" | "warning" | "error"
  reported_total,      \* the total in the success message, -1 when there is none
  written,       \* history: the temporary files this run wrote
  attempted,     \* history: the temporary files this run tried to remove
  boot,          \* history: how initialize_clients ended in this run
  soft_failures, \* history: the contained failures of this run
  \* ---- the thread pools (lines 228-229 and 300-303)
  pool_task,     \* per submitted tenant task: "none" | "queued" | "running" | "done"
  inner_pending, \* per task: detail requests submitted to its inner pool, not begun
  inner_active,  \* per task: detail requests a thread of its inner pool is executing
  \* ---- the Drive folder DRIVE_FOLDER_ID (token_uploader/app.py lines 73-83)
  drive          \* its files in the listing's order: the name, and whether the
                 \* authorization tool uploaded the file

configVars == <<BATCH_SIZE, MAX_WORKERS>>
loadVars == <<emails, load_i, inserted, load_log, load_pc>>
crawlVars == <<existing_email_ids, email_data, next_page_token, response_token,
               new_msg_ids, crawl_i, crawl_result, crawl_pc, crawl_abort,
               list_calls, listed_ids, requested, fetched_ok, fetched_prev,
               http_failed, last_page_seen, calls_after_last, pauses,
               empty_page>>
cacheVars == <<cache, now, ticks, warehouse, call_pc, call_time, call_result,
               call_prev, call_queried, last_query, queries, call_count,
               inserted_rows, failures>>
runVars == <<initialized, files, run_pc, token_files, download_log, token_paths,
             task, total_inserted, status, reported_total, written, attempted,
             boot, soft_failures>>
poolVars == <<pool_task, inner_pending, inner_active>>
uploadVars == <<drive>>
vars == <<configVars, loadVars, crawlVars, cacheVars, runVars, poolVars, uploadVars>>

\* What each component leaves alone.
notLoad == <<configVars, crawlVars, cacheVars, runVars, poolVars, uploadVars>>
notCrawl == <<configVars, loadVars, cacheVars, runVars, poolVars, uploadVars>>
notCache == <<configVars, loadVars, crawlVars, runVars, poolVars, uploadVars>>
notRun == <<configVars, loadVars, crawlVars, cacheVars, poolVars, uploadVars>>
notPool == <<configVars, loadVars, crawlVars, cacheVars, runVars, uploadVars>>
notUpload == <<configVars, loadVars, crawlVars, cacheVars, runVars, poolVars>>

Range(s) == {s[k] : k \in 1..Len(s)}

\* The message identifiers of the mailboxes.
Ids == {"m1", "m2", "m3"}

Min(a, b) == IF a < b THEN a ELSE b

\* Python's s[a:b] for 0 <= a, on a 1-based TLA+ sequence.
Slice(s, a, b) == SubSeq(s, a + 1, Min(b, Len(s)))

(***************************************************************************)
(* Configuration: BATCH_SIZE = int(os.environ.get("BATCH_SIZE", 1000)).    *)
(* Any integer the environment gives is accepted, 0 included.              *)
(***************************************************************************)
ConfigInit == BATCH_SIZE \in 0..MaxBatchSize /\ MAX_WORKERS = 3

\* The defaults of lines 48-49, for the components that read neither.
ConfigDefault == BATCH_SIZE = 1000 /\ MAX_WORKERS = 3

(***************************************************************************)
(* The Batch Loader: insert_into_bigquery(email_data).                     *)
(***************************************************************************)
\* What bigquery_client.insert_rows_json does with one batch: it returns no
\* errors, returns row errors, or raises.
BatchOutcomes == {"accepted", "row_errors", "exception"}

LoadIdle ==
  /\ emails = <<>>
  /\ load_i = 0
  /\ inserted = 0
  /\ load_log = <<>>
  /\ load_pc = "idle"

\* The records are told apart by their position: record k is the k-th found.
LoadInit ==
  /\ emails \in {[k \in 1..n |-> k] : n \in 0..MaxRows}
  /\ load_i = 0
  /\ inserted = 0
  /\ load_log = <<>>
  /\ load_pc = "call"

\* A slice that runs one record too far.
BatchOneTooMany(data, i) == Slice(data, i, i + BATCH_SIZE + 1)

\* line 241: batch = email_data[i:i+BATCH_SIZE]
Batch(data, i) == Slice(data, i, i + BATCH_SIZE)

\* A counter that is advanced whatever the insert call answered.
InsertedAfterAnyOutcome(count, batch, outcome) == count + Len(batch)

\* lines 243-250: only a batch that came back without errors is counted.
InsertedAfter(count, batch, outcome) ==
  IF outcome = "accepted" THEN count + Len(batch) ELSE count

\* A loader that sleeps after every batch, the last one too.
SleepAfterEveryBatch(data, i) == TRUE

\* line 252: the pacing sleep is taken when another batch follows.
SleepAfter(data, i) == i + BATCH_SIZE < Len(data)

InsertEvent(batch, outcome) == [op |-> "insert", batch |-> batch, outcome |-> outcome]
SleepEvent == [op |-> "sleep", batch |-> <<>>, outcome |-> "none"]

\* lines 232-240: the guard on an empty list, then range(0, len, BATCH_SIZE),
\* which raises ValueError for a step of 0.
LoadCall ==
  /\ load_pc = "call"
  /\ \/ /\ emails = <<>>
        /\ load_pc' = "returned"
     \/ /\ emails # <<>>
        /\ BATCH_SIZE = 0
        /\ load_pc' = "raised"
     \/ /\ emails # <<>>
        /\ BATCH_SIZE > 0
        /\ load_pc' = "loop"
  /\ UNCHANGED <<emails, load_i, inserted, load_log>>
  /\ UNCHANGED notLoad

\* lines 240-253: one iteration of the loop, the pacing sleep included.
LoadBatch ==
  /\ load_pc = "loop"
  /\ \E outcome \in BatchOutcomes :
       LET batch == Batch(emails, load_i) IN
         /\ inserted' = InsertedAfter(inserted, batch, outcome)
         /\ load_log' = load_log \o <<InsertEvent(batch, outcome)>>
                         \o (IF SleepAfter(emails, load_i) THEN <<SleepEvent>> ELSE <<>>)
  /\ load_i' = load_i + BATCH_SIZE
  /\ load_pc' = IF load_i' < Len(emails) THEN "loop" ELSE "returned"
  /\ UNCHANGED emails
  /\ UNCHANGED notLoad

NextLoad == LoadCall \/ LoadBatch

(***************************************************************************)
(* The Mailbox Crawler: fetch_emails(user_token_path, existing_email_ids)  *)
(* with _batch_execute.  A record is told by its identifier.               *)
(***************************************************************************)
CrawlFresh ==
  /\ email_data = <<>>
  /\ next_page_token = 0
  /\ response_token = 0
  /\ new_msg_ids = <<>>
  /\ crawl_i = 0
  /\ crawl_result = <<>>
  /\ crawl_abort = "none"
  /\ list_calls = 0
  /\ listed_ids = {}
  /\ requested = {}
  /\ fetched_ok = {}
  /\ fetched_prev = {}
  /\ http_failed = {}
  /\ last_page_seen = FALSE
  /\ calls_after_last = 0
  /\ pauses = 0
  /\ empty_page = FALSE

CrawlIdle ==
  /\ existing_email_ids = {}
  /\ crawl_pc = "idle"
  /\ CrawlFresh

CrawlInit ==
  /\ existing_email_ids \in SUBSET Ids
  /\ crawl_pc = "creds"
  /\ CrawlFresh

\* The message lists a listing page can carry (the provider may repeat one).
PageMessages == UNION {[1..n -> Ids] : n \in 0..MaxPageLen}

\* How one detail request ends in execute_request (lines 222-226): a response,
\* an HttpError (caught and returned), any other exception (not caught).
DetailOutcomes == {"ok", "HttpError", "exception"}

\* How lines 149-157 end: a usable credential, an expired one without refresh
\* token (return []), or an exception (unreadable file, failed refresh).
CredsOutcomes == {"ok", "expired", "exception"}

\* A listing that keeps the identifiers already in the warehouse.
NewMsgIdsUnfiltered(messages, existing) == messages

\* line 175: [msg["id"] for msg in messages if msg["id"] not in existing_email_ids]
NewMsgIds(messages, existing) == SelectSeq(messages, LAMBDA id : id \notin existing)

\* A list in place of the dict: every response is appended.
DictPutAlways(d, id) == Append(d, id)

\* A dict that puts a new key in front of the others.
DictPutFront(d, id) == IF id \in Range(d) THEN d ELSE <<id>> \o d

\* line 205: email_data[msg_id] = email_entry (a dict keeps a key's first place).
DictPut(d, id) == IF id \in Range(d) THEN d ELSE Append(d, id)

\* lines 188-206: the responses of one sub-batch, taken in order.
RECURSIVE StoreResponses(_, _, _)
StoreResponses(d, ids, out) ==
  IF ids = <<>> THEN d
  ELSE StoreResponses(IF Head(out) = "ok" THEN DictPut(d, Head(ids)) ELSE d,
                      Tail(ids), Tail(out))

\* lines 215-217: the handler around the whole crawl returns [].
CrawlAbort(step) ==
  /\ crawl_pc' = "returned"
  /\ crawl_result' = <<>>
  /\ crawl_abort' = step

\* lines 208-214: the end of a page, with the dict as it then is.
PageEnd(d, token) ==
  /\ next_page_token' = token
  /\ IF token = 0
     THEN /\ crawl_pc' = "returned"
          /\ crawl_result' = d
          /\ pauses' = pauses
     ELSE /\ crawl_pc' = "list"
          /\ crawl_result' = crawl_result
          /\ pauses' = pauses + 1
  /\ crawl_abort' = crawl_abort

\* A crawl that takes no page for empty.
IsEmptyPageNever(messages) == FALSE

\* line 172: not messages
IsEmptyPage(messages) == messages = <<>>

\* lines 148-161
CrawlStart ==
  /\ crawl_pc = "creds"
  /\ \E c \in CredsOutcomes :
       IF c = "ok"
       THEN /\ crawl_pc' = "list"
            /\ UNCHANGED <<crawl_result, crawl_abort>>
       ELSE CrawlAbort(IF c = "expired" THEN "expired" ELSE "creds")
  /\ UNCHANGED <<existing_email_ids, email_data, next_page_token, response_token,
                 new_msg_ids, crawl_i, list_calls, listed_ids, requested,
                 fetched_ok, fetched_prev, http_failed, last_page_seen,
                 calls_after_last, pauses, empty_page>>
  /\ UNCHANGED notCrawl

\* lines 164-175: one listing request and what follows it up to the first
\* sub-batch (or, with nothing new on the page, up to the end of the page).
ListPage ==
  /\ crawl_pc = "list"
  /\ list_calls < MaxPages
  /\ list_calls' = list_calls + 1
  /\ fetched_prev' = fetched_ok
  /\ calls_after_last' = calls_after_last + (IF last_page_seen THEN 1 ELSE 0)
  /\ \/ \* the request raises
        /\ CrawlAbort("listing")
        /\ UNCHANGED <<email_data, next_page_token, response_token, new_msg_ids,
                       crawl_i, listed_ids, last_page_seen, pauses, empty_page>>
     \/ \E messages \in PageMessages, token \in 0..MaxPages :
          /\ token \in {0, list_calls + 1}
          \* the last page within the bound carries no token, unless it
          \* is empty (the crawl ends on an empty page whatever its token)
          /\ (list_calls + 1 = MaxPages /\ messages # <<>>) => token = 0
          /\ empty_page' = (empty_page \/ messages = <<>>)
          /\ listed_ids' = listed_ids \cup Range(messages)
          /\ last_page_seen' = (last_page_seen \/ token = 0)
          /\ response_token' = token
          /\ crawl_i' = 0
          /\ UNCHANGED email_data
          /\ IF IsEmptyPage(messages)
             THEN \* lines 172-173: break
                  /\ crawl_pc' = "returned"
                  /\ crawl_result' = email_data
                  /\ new_msg_ids' = new_msg_ids
                  /\ UNCHANGED <<next_page_token, crawl_abort, pauses>>
             ELSE /\ new_msg_ids' = NewMsgIds(messages, existing_email_ids)
                  /\ IF new_msg_ids' = <<>>
                     THEN PageEnd(email_data, token)
                     ELSE /\ crawl_pc' = "details"
                          /\ UNCHANGED <<next_page_token, crawl_result,
                                         crawl_abort, pauses>>
  /\ UNCHANGED <<existing_email_ids, requested, fetched_ok, http_failed>>
  /\ UNCHANGED notCrawl

\* lines 179-206 with _batch_execute: one sub-batch.  executor.map submits
\* every request of the sub-batch; list() re-raises the first exception that
\* execute_request did not catch, and that one leaves fetch_emails by its
\* handler.  After the last sub-batch comes the end of the page.
DetailBatch ==
  /\ crawl_pc = "details"
  /\ LET batch_ids == Slice(new_msg_ids, crawl_i, crawl_i + batch_size) IN
     \E out \in [1..Len(batch_ids) -> DetailOutcomes] :
       LET got(o) == {batch_ids[k] : k \in {j \in 1..Len(batch_ids) : out[j] = o}}
           d == StoreResponses(email_data, batch_ids, out)
       IN
         /\ requested' = requested \cup Range(batch_ids)
         /\ fetched_ok' = fetched_ok \cup got("ok")
         /\ http_failed' = http_failed \cup got("HttpError")
         /\ crawl_i' = crawl_i + batch_size
         /\ IF got("exception") # {}
            THEN /\ CrawlAbort("detail")
                 /\ UNCHANGED <<email_data, next_page_token, pauses>>
            ELSE /\ email_data' = d
                 /\ IF crawl_i' < Len(new_msg_ids)
                    THEN UNCHANGED <<crawl_pc, next_page_token, crawl_result,
                                     crawl_abort, pauses>>
                    ELSE PageEnd(d, response_token)
  /\ UNCHANGED <<existing_email_ids, response_token, new_msg_ids, list_calls,
                 listed_ids, fetched_prev, last_page_seen, calls_after_last,
                 empty_page>>
  /\ UNCHANGED notCrawl

NextCrawl == CrawlStart \/ ListPage \/ DetailBatch

(***************************************************************************)
(* One tenant's task: process_user_token(token_path, existing_email_ids),  *)
(* the crawl followed by the load of what it returned.                     *)
(***************************************************************************)
\* The task is dispatched with a warehouse that holds one of the mailbox's
\* messages already.
TaskCrawlInit ==
  /\ existing_email_ids = {"m1"}
  /\ crawl_pc = "creds"
  /\ CrawlFresh

\* lines 273-276: emails = fetch_emails(...); the load is called with a list
\* that is not empty, and 0 is returned otherwise.  fetch_emails has returned:
\* of its frame the returned list is all that is left.
ProcessUserToken ==
  /\ crawl_pc = "returned"
  /\ load_pc = "idle"
  /\ IF crawl_result # <<>>
     THEN emails' = crawl_result /\ load_pc' = "call"
     ELSE emails' = emails /\ load_pc' = "skipped"
  /\ crawl_pc' = "idle"
  /\ email_data' = <<>>
  /\ next_page_token' = 0
  /\ response_token' = 0
  /\ new_msg_ids' = <<>>
  /\ crawl_i' = 0
  /\ crawl_abort' = "none"
  /\ list_calls' = 0
  /\ listed_ids' = {}
  /\ requested' = {}
  /\ fetched_ok' = {}
  /\ fetched_prev' = {}
  /\ http_failed' = {}
  /\ last_page_seen' = FALSE
  /\ calls_after_last' = 0
  /\ pauses' = 0
  /\ empty_page' = FALSE
  /\ UNCHANGED <<existing_email_ids, crawl_result>>
  /\ UNCHANGED <<load_i, inserted, load_log>>
  /\ UNCHANGED <<configVars, cacheVars, runVars, poolVars, uploadVars>>

NextTask == NextCrawl \/ ProcessUserToken \/ NextLoad

(***************************************************************************)
(* The Existing-Identifier Cache: cache_with_timeout(timeout=3600) around  *)
(* fetch_existing_email_ids.  The key is str(args) + str(kwargs): the one  *)
(* service object of line 278 and no other argument, so one key.           *)
(***************************************************************************)
Callers == {"c1", "c2"}

NoEntry == [present |-> FALSE, result |-> {}, timestamp |-> 0]
NoQuery == [present |-> FALSE, result |-> {}, stamp |-> 0, failed |-> FALSE]

\* The steps by which the model's clock advances: half the time to live, and
\* a second less, so that calls fall just inside and just outside the window.
Deltas == {timeout \div 2, timeout \div 2 - 1}

CacheInit ==
  /\ cache = NoEntry
  /\ now = 0
  /\ ticks = 0
  /\ warehouse \in SUBSET {"m1"}
  /\ call_pc = [c \in Callers |-> "idle"]
  /\ call_time = [c \in Callers |-> 0]
  /\ call_result = [c \in Callers |-> {}]
  /\ call_prev = [c \in Callers |-> NoQuery]
  /\ call_queried = [c \in Callers |-> 0]
  /\ last_query = NoQuery
  /\ queries = 0
  /\ call_count = 0
  /\ inserted_rows = [id \in Ids |-> 0]
  /\ failures = {}

CacheIdle ==
  /\ cache = NoEntry
  /\ now = 0
  /\ ticks = 0
  /\ warehouse = {}
  /\ call_pc = [c \in Callers |-> "idle"]
  /\ call_time = [c \in Callers |-> 0]
  /\ call_result = [c \in Callers |-> {}]
  /\ call_prev = [c \in Callers |-> NoQuery]
  /\ call_queried = [c \in Callers |-> 0]
  /\ last_query = NoQuery
  /\ queries = 0
  /\ call_count = 0
  /\ inserted_rows = [id \in Ids |-> 0]
  /\ failures = {}

\* An entry that never expires.
CacheHitForever(entry, current_time) == entry.present

\* line 60: key in cache and current_time - cache[key]["timestamp"] < timeout
CacheHit(entry, current_time) ==
  entry.present /\ current_time - entry.timestamp < timeout

\* lines 99-104: the rows of the query, or set() when the query raises.
QueryResult(ok) == IF ok THEN warehouse ELSE {}

\* lines 58-61: the wrapper is entered; a live entry is returned at once.
CallBegin(c) ==
  /\ call_pc[c] \in {"idle", "returned"}
  /\ call_count < MaxCalls
  /\ call_count' = call_count + 1
  /\ call_time' = [call_time EXCEPT ![c] = now]
  /\ call_prev' = [call_prev EXCEPT ![c] = last_query]
  /\ call_queried' = [call_queried EXCEPT ![c] = 0]
  /\ IF CacheHit(cache, now)
     THEN /\ call_pc' = [call_pc EXCEPT ![c] = "returned"]
          /\ call_result' = [call_result EXCEPT ![c] = cache.result]
     ELSE /\ call_pc' = [call_pc EXCEPT ![c] = "querying"]
          /\ call_result' = call_result
  /\ UNCHANGED <<cache, now, ticks, warehouse, last_query, queries,
                 inserted_rows, failures>>
  /\ UNCHANGED notCache

\* lines 62-64 with lines 95-104: the query runs (or fails, giving set()),
\* its result is stored under the time read at line 59, and returned.
CallQuery(c) ==
  /\ call_pc[c] = "querying"
  /\ \E ok \in BOOLEAN :
       LET result == QueryResult(ok) IN
         /\ cache' = [present |-> TRUE, result |-> result, timestamp |-> call_time[c]]
         /\ last_query' = [present |-> TRUE, result |-> result,
                            stamp |-> call_time[c], failed |-> ~ok]
         /\ call_result' = [call_result EXCEPT ![c] = result]
         /\ failures' = failures \cup (IF ok THEN {} ELSE {"query"})
  /\ queries' = queries + 1
  /\ call_queried' = [call_queried EXCEPT ![c] = @ + 1]
  /\ call_pc' = [call_pc EXCEPT ![c] = "returned"]
  /\ UNCHANGED <<now, ticks, warehouse, call_time, call_prev, call_count,
                 inserted_rows>>
  /\ UNCHANGED notCache

\* Time passes.
Tick ==
  /\ ticks < MaxTicks
  /\ ticks' = ticks + 1
  /\ \E d \in Deltas : now' = now + d
  /\ UNCHANGED <<cache, warehouse, call_pc, call_time, call_result, call_prev,
                 call_queried, last_query, queries, call_count, inserted_rows,
                 failures>>
  /\ UNCHANGED notCache

\* A record is inserted into the table (line 243, by any run).
WarehouseInsert ==
  /\ \E id \in Ids \ warehouse : warehouse' = warehouse \cup {id}
  /\ UNCHANGED <<cache, now, ticks, call_pc, call_time, call_result, call_prev,
                 call_queried, last_query, queries, call_count, inserted_rows,
                 failures>>
  /\ UNCHANGED notCache

\* lines 293-303 after the call of line 284 has returned: the tenant's crawl
\* keeps of the listed identifiers those that are not in the set the call
\* returned (line 175), and the load inserts a row for each of them (line
\* 243), or none when the insert fails.  Then the run ends.
TenantTasks(c) ==
  /\ call_pc[c] = "returned"
  /\ \E listed \in SUBSET Ids, accepted \in BOOLEAN :
       LET new == {id \in listed : id \notin call_result[c]} IN
         /\ new # {}
         /\ warehouse' = IF accepted THEN warehouse \cup new ELSE warehouse
         /\ inserted_rows' = [id \in Ids |->
                                IF accepted /\ id \in new
                                THEN inserted_rows[id] + 1 ELSE inserted_rows[id]]
         /\ failures' = failures \cup (IF accepted THEN {} ELSE {"insert"})
  /\ call_pc' = [call_pc EXCEPT ![c] = "idle"]
  /\ UNCHANGED <<cache, now, ticks, call_time, call_result, call_prev,
                 call_queried, last_query, queries, call_count>>
  /\ UNCHANGED notCache

\* Runs made one after the other in one process: each calls the cached
\* function and then crawls and loads its tenant.
NextRunSequence == CallBegin("c1") \/ CallQuery("c1") \/ TenantTasks("c1") \/ Tick

\* Calls made one after the other, by one caller.
NextCache == CallBegin("c1") \/ CallQuery("c1") \/ Tick \/ WarehouseInsert

\* Calls of overlapping runs: the requests of line 280 are served by threads
\* of one process, which share the closure's dict; the wrapper takes no lock,
\* so the steps of two calls interleave freely.
NextCacheConcurrent ==
  \/ \E c \in Callers : CallBegin(c)
  \/ \E c \in Callers : CallQuery(c)
  \/ Tick
  \/ WarehouseInsert

(***************************************************************************)
(* The Tenant Pipeline Orchestrator: run_fetch, with initialize_clients,   *)
(* list_drive_tokens, download_token and process_user_token.  A tenant     *)
(* task is one step here: what fetch_emails and insert_into_bigquery do    *)
(* inside it is the matter of SpecCrawl and SpecLoad, and the tasks share  *)
(* no state that one of them writes.                                       *)
(***************************************************************************)
\* "/tmp/bigquery-key.json" (line 262) among the temporary files; the token
\* file of the k-th listed artifact, "/tmp/<name>" (line 120), is k >= 1.
KeyFile == 0

\* The state a run starts from; initialized and files are the process's.
RunFresh ==
  /\ token_files = <<>>
  /\ download_log = <<>>
  /\ token_paths = <<>>
  /\ task = <<>>
  /\ total_inserted = 0
  /\ status = "none"
  /\ reported_total = -1
  /\ written = {}
  /\ attempted = {}
  /\ boot = "none"
  /\ soft_failures = {}

\* lines 69-73 and 278: the service object as constructed.
RunInit ==
  /\ initialized = FALSE
  /\ files = {}
  /\ run_pc = "idle"
  /\ RunFresh

\* How initialize_clients ends when it has work to do (lines 79-87): all
\* clients built; the key download raises (lines 266-268); or the key is on
\* disk and the construction of a client raises.
BootOutcomes == {"ok", "key_failed", "client_failed"}

\* How download_token ends for an artifact that is not skipped by its name.
\* All of them come after open(token_path, "wb") of line 129.
DownloadOutcomes ==
  {"valid", "refreshed", "refresh_failed", "expired", "download_failed"}

\* A download_token that returns the path whatever happened.
ResolvedAlways(outcome) == TRUE

\* lines 134-145: the outcomes that return token_path.
Resolved(outcome) == outcome \in {"valid", "refreshed"}

\* range(0, len(email_data), BATCH_SIZE), for BATCH_SIZE > 0
BatchStarts(data) == {i \in 0..(Len(data) - 1) : i % BATCH_SIZE = 0}

RECURSIVE SumLen(_, _)
SumLen(data, starts) ==
  IF starts = {} THEN 0
  ELSE LET i == CHOOSE x \in starts : TRUE
       IN Len(Batch(data, i)) + SumLen(data, starts \ {i})

\* lines 270-276 with lines 233-240: the task raises when its crawl returned
\* records and range() refuses the step BATCH_SIZE = 0; nothing catches it.
TaskRaises(n) == n > 0 /\ BATCH_SIZE = 0

\* A run is requested (GET /fetch); one run at a time.
StartRun ==
  /\ run_pc \in {"idle", "ended"}
  /\ run_pc' = "initialize"
  /\ token_files' = <<>>
  /\ download_log' = <<>>
  /\ token_paths' = <<>>
  /\ task' = <<>>
  /\ total_inserted' = 0
  /\ status' = "none"
  /\ reported_total' = -1
  /\ written' = {}
  /\ attempted' = {}
  /\ boot' = "none"
  /\ soft_failures' = {}
  /\ UNCHANGED <<initialized, files>>
  /\ UNCHANGED notRun

\* The handler of lines 320-322.
RunError ==
  /\ run_pc' = "ended"
  /\ status' = "error"

\* line 283: initialize_clients (lines 75-88) with _download_bigquery_key.
Initialize ==
  /\ run_pc = "initialize"
  /\ IF initialized
     THEN /\ boot' = "skipped"
          /\ run_pc' = "existing"
          /\ UNCHANGED <<initialized, files, written, status>>
     ELSE \E b \in BootOutcomes :
            /\ boot' = b
            /\ initialized' = (b = "ok")
            /\ files' = IF b = "key_failed" THEN files ELSE files \cup {KeyFile}
            /\ written' = IF b = "key_failed" THEN written ELSE written \cup {KeyFile}
            /\ IF b = "ok"
               THEN run_pc' = "existing" /\ status' = status
               ELSE RunError
  /\ UNCHANGED <<token_files, download_log, token_paths, task, total_inserted,
                 reported_total, attempted, soft_failures>>
  /\ UNCHANGED notRun

\* line 284: the existing identifiers, from the cache or the warehouse; a
\* failed query gives set() (lines 102-104).
FetchExisting ==
  /\ run_pc = "existing"
  /\ run_pc' = "listing"
  /\ \E failed \in BOOLEAN :
       soft_failures' = soft_failures \cup (IF failed THEN {"existence_query"} ELSE {})
  /\ UNCHANGED <<initialized, files, token_files, download_log, token_paths, task,
                 total_inserted, status, reported_total, written, attempted, boot>>
  /\ UNCHANGED notRun

\* lines 287-291: list_drive_tokens (a failed listing gives []), and the
\* early return when nothing is listed.
ListTokensFrom(listings) ==
  /\ run_pc = "listing"
  /\ \/ /\ token_files' = <<>>
        /\ soft_failures' = soft_failures \cup {"tenant_listing"}
     \/ /\ token_files' \in listings
        /\ soft_failures' = soft_failures
  /\ IF token_files' = <<>>
     THEN run_pc' = "ended" /\ status' = "warning"
     ELSE run_pc' = "download" /\ status' = status
  /\ UNCHANGED <<initialized, files, download_log, token_paths, task,
                 total_inserted, reported_total, written, attempted, boot>>
  /\ UNCHANGED notRun

\* The folder holds any artifacts, up to MaxTokens of them.
ListTokens == ListTokensFrom(UNION {[1..n -> BOOLEAN] : n \in 0..MaxTokens})

\* lines 294-297 with download_token (lines 118-145): the next artifact.
DownloadToken ==
  /\ run_pc = "download"
  /\ LET k == Len(download_log) + 1 IN
       /\ k <= Len(token_files)
       /\ IF token_files[k]
          THEN \* lines 123-125: skipped by its name, nothing written
               /\ download_log' = Append(download_log, "skipped")
               /\ UNCHANGED <<files, written, token_paths, soft_failures>>
          ELSE \E o \in DownloadOutcomes :
                 /\ download_log' = Append(download_log, o)
                 /\ files' = files \cup {k}
                 /\ written' = written \cup {k}
                 /\ token_paths' = IF Resolved(o) THEN Append(token_paths, k)
                                   ELSE token_paths
                 /\ soft_failures' = soft_failures \cup
                      (IF o \in {"refresh_failed", "download_failed"} THEN {o} ELSE {})
       /\ run_pc' = IF k = Len(token_files) THEN "dispatch" ELSE "download"
  /\ UNCHANGED <<initialized, token_files, task, total_inserted, status,
                 reported_total, attempted, boot>>
  /\ UNCHANGED notRun

\* lines 300-301: one future per resolved artifact.
Dispatch ==
  /\ run_pc = "dispatch"
  /\ task' = [k \in 1..Len(token_paths) |-> [state |-> "queued", count |-> 0]]
  /\ run_pc' = "tasks"
  /\ UNCHANGED <<initialized, files, token_files, download_log, token_paths,
                 total_inserted, status, reported_total, written, attempted, boot,
                 soft_failures>>
  /\ UNCHANGED notRun

\* process_user_token (lines 270-276) for one future: the crawl returns n
\* records (none when an error ended it), and the load counts the records of
\* the batches that were accepted.
RunTask(k) ==
  /\ run_pc = "tasks"
  /\ task[k].state = "queued"
  /\ \E n \in 0..MaxEmails :
       LET data == [j \in 1..n |-> j] IN
         IF TaskRaises(n)
         THEN /\ task' = [task EXCEPT ![k] = [state |-> "raised", count |-> 0]]
              /\ soft_failures' = soft_failures
         ELSE IF n = 0
         THEN /\ task' = [task EXCEPT ![k] = [state |-> "done", count |-> 0]]
              /\ \E f \in SUBSET {"listing_page", "detail_fetch"} :
                   soft_failures' = soft_failures \cup f
         ELSE \E accepted \in SUBSET BatchStarts(data) :
              /\ task' = [task EXCEPT ![k] =
                            [state |-> "done", count |-> SumLen(data, accepted)]]
              /\ soft_failures' = soft_failures \cup
                   (IF accepted # BatchStarts(data) THEN {"batch_insert"} ELSE {})
  /\ UNCHANGED <<initialized, files, run_pc, token_files, download_log, token_paths,
                 total_inserted, status, reported_total, written, attempted, boot>>
  /\ UNCHANGED notRun

Finished(t) == t.state # "queued"

RECURSIVE SumCounts(_)
SumCounts(ts) == IF ts = <<>> THEN 0 ELSE Head(ts).count + SumCounts(Tail(ts))

\* lines 302-303 and the end of the with block: future.result() gives each
\* task's count, or re-raises what the task raised; leaving the block waits
\* for every task, so no task is cancelled either way.
Aggregate ==
  /\ run_pc = "tasks"
  /\ \A k \in 1..Len(task) : Finished(task[k])
  /\ IF \E k \in 1..Len(task) : task[k].state = "raised"
     THEN /\ RunError
          /\ UNCHANGED total_inserted
     ELSE /\ total_inserted' = SumCounts(task)
          /\ run_pc' = "cleanup"
          /\ status' = status
  /\ UNCHANGED <<initialized, files, token_files, download_log, token_paths, task,
                 reported_total, written, attempted, boot, soft_failures>>
  /\ UNCHANGED notRun

\* lines 305-319: the files of token_paths and the key are removed, a failed
\* removal is passed over, and the success response is returned.
Cleanup ==
  /\ run_pc = "cleanup"
  /\ LET targets == Range(token_paths) \cup {KeyFile} IN
       /\ attempted' = attempted \cup targets
       /\ \E kept \in SUBSET (targets \cap files) : files' = (files \ targets) \cup kept
  /\ status' = "success"
  /\ reported_total' = total_inserted
  /\ run_pc' = "ended"
  /\ UNCHANGED <<initialized, token_files, download_log, token_paths, task,
                 total_inserted, written, boot, soft_failures>>
  /\ UNCHANGED notRun

Next ==
  \/ StartRun
  \/ Initialize
  \/ FetchExisting
  \/ ListTokens
  \/ DownloadToken
  \/ Dispatch
  \/ \E k \in 1..MaxTokens : k <= Len(task) /\ RunTask(k)
  \/ Aggregate
  \/ Cleanup

(***************************************************************************)
(* The thread pools of a run.  run_fetch submits the tenant tasks to a     *)
(* ThreadPoolExecutor(max_workers=MAX_WORKERS) (lines 300-301); a running  *)
(* task's fetch_emails calls _batch_execute once per sub-batch, which maps *)
(* the sub-batch's requests over a ThreadPoolExecutor(max_workers=5) of    *)
(* its own and returns when all of them have ended (lines 228-229).        *)
(***************************************************************************)
\* One tenant task more than the widest pool can run at once.
PoolTasks == 1..(MaxWorkers + 1)

PoolIdle ==
  /\ pool_task = [t \in PoolTasks |-> "none"]
  /\ inner_pending = [t \in PoolTasks |-> 0]
  /\ inner_active = [t \in PoolTasks |-> 0]

\* line 301: the futures of the first n tasks are submitted.
PoolInit ==
  /\ \E n \in 0..(MaxWorkers + 1) :
       pool_task = [t \in PoolTasks |-> IF t <= n THEN "queued" ELSE "none"]
  /\ inner_pending = [t \in PoolTasks |-> 0]
  /\ inner_active = [t \in PoolTasks |-> 0]

Running == {t \in PoolTasks : pool_task[t] = "running"}

\* A pool that starts a thread for every item submitted.
PoolHasRoomAlways(busy, width) == TRUE

\* ThreadPoolExecutor(max_workers=width): an item is taken up only by one of
\* at most width threads, each executing one item at a time.
PoolHasRoom(busy, width) == busy < width

\* A worker of the outer pool takes the oldest queued task.
TaskBegin(t) ==
  /\ pool_task[t] = "queued"
  /\ \A u \in PoolTasks : u < t => pool_task[u] # "queued"
  /\ PoolHasRoom(Cardinality(Running), MAX_WORKERS)
  /\ pool_task' = [pool_task EXCEPT ![t] = "running"]
  /\ UNCHANGED <<inner_pending, inner_active>>
  /\ UNCHANGED notPool

\* line 229: a running task maps the requests of a sub-batch over a new pool.
BatchExecute(t) ==
  /\ pool_task[t] = "running"
  /\ inner_pending[t] = 0
  /\ inner_active[t] = 0
  /\ \E r \in 1..MaxRequests : inner_pending' = [inner_pending EXCEPT ![t] = r]
  /\ UNCHANGED <<pool_task, inner_active>>
  /\ UNCHANGED notPool

\* A thread of the task's inner pool begins a request (line 224).
RequestBegin(t) ==
  /\ inner_pending[t] > 0
  /\ PoolHasRoom(inner_active[t], InnerWorkers)
  /\ inner_pending' = [inner_pending EXCEPT ![t] = @ - 1]
  /\ inner_active' = [inner_active EXCEPT ![t] = @ + 1]
  /\ UNCHANGED pool_task
  /\ UNCHANGED notPool

\* The request ends, with a response or an error.
RequestEnd(t) ==
  /\ inner_active[t] > 0
  /\ inner_active' = [inner_active EXCEPT ![t] = @ - 1]
  /\ UNCHANGED <<pool_task, inner_pending>>
  /\ UNCHANGED notPool

\* The task returns; it is in no _batch_execute then.
TaskEnd(t) ==
  /\ pool_task[t] = "running"
  /\ inner_pending[t] = 0
  /\ inner_active[t] = 0
  /\ pool_task' = [pool_task EXCEPT ![t] = "done"]
  /\ UNCHANGED <<inner_pending, inner_active>>
  /\ UNCHANGED notPool

NextPool ==
  \E t \in PoolTasks :
    \/ TaskBegin(t)
    \/ BatchExecute(t)
    \/ RequestBegin(t)
    \/ RequestEnd(t)
    \/ TaskEnd(t)

(***************************************************************************)
(* The authorization tool (src/token_uploader/app.py) and the Drive folder *)
(* it shares with the service.  A name is the sequence of its characters.  *)
(***************************************************************************)
UploadIdle == drive = <<>>

\* The addresses getProfile reports for the users who authorize.
Addresses == {<<"a", "@", "b", ".", "c">>, <<"d", "@", "b", ".", "c">>}

\* Names of files put into the folder by hand: an OAuth token stored as
\* main.py's header asks (lines 8-10), and a service account key.
HandPlacedNames == {<<"t", "o", "k", "e", "n">>, <<"k", "e", "y", ".", "j", "s", "o", "n">>}

JsonSuffix == <<".", "j", "s", "o", "n">>

\* str.replace(a, b) for one-character a and b
ReplaceChar(s, a, b) == [k \in 1..Len(s) |-> IF s[k] = a THEN b ELSE s[k]]

\* app.py lines 45-48: f"user_token_{user_email}.json", the address with "@"
\* and "." replaced by "_".
TokenFilename(address) ==
  <<"u", "s", "e", "r", "_", "t", "o", "k", "e", "n", "_">>
    \o ReplaceChar(ReplaceChar(address, "@", "_"), ".", "_")
    \o JsonSuffix

\* str.endswith(suffix)
EndsWith(s, suffix) ==
  /\ Len(s) >= Len(suffix)
  /\ SubSeq(s, Len(s) - Len(suffix) + 1, Len(s)) = suffix

\* app.py lines 104-108: authorize_user saves the token under TokenFilename
\* and upload_to_drive creates a file of that name in the folder (lines
\* 73-83); when either fails the folder is left as it is.
AuthorizeAndUpload ==
  /\ Len(drive) < MaxTokens
  /\ \E address \in Addresses :
       drive' = Append(drive, [name |-> TokenFilename(address), by_tool |-> TRUE])
  /\ UNCHANGED notUpload

\* A file is put into the folder by hand.
PlaceByHand ==
  /\ Len(drive) < MaxTokens
  /\ \E name \in HandPlacedNames :
       drive' = Append(drive, [name |-> name, by_tool |-> FALSE])
  /\ UNCHANGED notUpload

\* main.py lines 287-291 on the folder as it is: line 123 will test each
\* listed name for the suffix ".json".
ListDrive ==
  ListTokensFrom({[k \in 1..Len(drive) |-> EndsWith(drive[k].name, JsonSuffix)]})

\* The tool's uploads and the service's runs on one folder.
NextUpload ==
  \/ AuthorizeAndUpload
  \/ PlaceByHand
  \/ StartRun
  \/ Initialize
  \/ FetchExisting
  \/ ListDrive
  \/ DownloadToken
  \/ Dispatch
  \/ \E k \in 1..MaxTokens : k <= Len(task) /\ RunTask(k)
  \/ Aggregate
  \/ Cleanup

InitLoad == ConfigInit /\ LoadInit /\ CrawlIdle /\ CacheIdle /\ RunInit /\ PoolIdle /\ UploadIdle

InitCrawl == ConfigDefault /\ LoadIdle /\ CrawlInit /\ CacheIdle /\ RunInit /\ PoolIdle /\ UploadIdle

InitCache == ConfigDefault /\ LoadIdle /\ CrawlIdle /\ CacheInit /\ RunInit /\ PoolIdle /\ UploadIdle

Init == ConfigInit /\ LoadIdle /\ CrawlIdle /\ CacheIdle /\ RunInit /\ PoolIdle /\ UploadIdle

InitTask == ConfigInit /\ LoadIdle /\ TaskCrawlInit /\ CacheIdle /\ RunInit /\ PoolIdle /\ UploadIdle

InitUpload == ConfigDefault /\ LoadIdle /\ CrawlIdle /\ CacheIdle /\ RunInit /\ PoolIdle /\ UploadIdle

InitPool ==
  /\ BATCH_SIZE = 1000
  /\ MAX_WORKERS \in 1..MaxWorkers
  /\ LoadIdle /\ CrawlIdle /\ CacheIdle /\ RunInit /\ PoolInit /\ UploadIdle

SpecPool == InitPool /\ [][NextPool]_vars

SpecUpload == InitUpload /\ [][NextUpload]_vars

Spec == Init /\ [][Next]_vars

SpecCache == InitCache /\ [][NextCache]_vars

SpecRunSequence == InitCache /\ [][NextRunSequence]_vars

SpecCacheConcurrent == InitCache /\ [][NextCacheConcurrent]_vars

SpecCrawl == InitCrawl /\ [][NextCrawl]_vars

SpecLoad == InitLoad /\ [][NextLoad]_vars

SpecTask == InitTask /\ [][NextTask]_vars

(***************************************************************************)
(* Claims about the Batch Loader (checked under SpecLoad).                 *)
(***************************************************************************)
CeilDiv(a, b) == (a + b - 1) \div b

\* The insert_rows_json calls made so far, in order.
InsertCalls == SelectSeq(load_log, LAMBDA e : e.op = "insert")

RECURSIVE ConcatBatches(_)
ConcatBatches(calls) ==
  IF calls = <<>> THEN <<>> ELSE Head(calls).batch \o ConcatBatches(Tail(calls))

RECURSIVE AcceptedRows(_)
AcceptedRows(calls) ==
  IF calls = <<>> THEN 0
  ELSE (IF Head(calls).outcome = "accepted" THEN Len(Head(calls).batch) ELSE 0)
       + AcceptedRows(Tail(calls))

\* C3: for a list of length L and a batch size M >= 1 the loader makes exactly
\* ceil(L/M) insert calls, no batch is larger than M (nor empty), and the last
\* batch has L mod M records, or M when M divides L.
C3_BatchSizeBound ==
  BATCH_SIZE >= 1 =>
    /\ \A k \in 1..Len(InsertCalls) :
         /\ Len(InsertCalls[k].batch) <= BATCH_SIZE
         /\ Len(InsertCalls[k].batch) >= 1
    /\ load_pc = "returned" =>
         /\ Len(InsertCalls) = CeilDiv(Len(emails), BATCH_SIZE)
         /\ Len(emails) > 0 =>
              Len(InsertCalls[Len(InsertCalls)].batch) =
                IF Len(emails) % BATCH_SIZE = 0 THEN BATCH_SIZE
                ELSE Len(emails) % BATCH_SIZE

\* A load of 3 records with BATCH_SIZE 2 has returned after 2 insert calls.
C3_Witness ==
  /\ load_pc = "returned"
  /\ Len(emails) = 3
  /\ BATCH_SIZE = 2
  /\ Len(InsertCalls) = 2
  /\ Len(InsertCalls[2].batch) = 1

\* C4: whatever each insert call answers (accepted, row errors, exception),
\* the load does not raise after it, the counter is the number of records of
\* the accepted batches only, and when the load returns every batch has been
\* attempted, a batch that follows a failed one too: the attempted batches
\* together are the whole input.
C4_BatchFailureContainment ==
  /\ InsertCalls # <<>> => load_pc # "raised"
  /\ inserted = AcceptedRows(InsertCalls)
  /\ load_pc = "returned" => ConcatBatches(InsertCalls) = emails

\* A load has returned whose first batch raised, whose second batch came back
\* with row errors and whose third batch was accepted and is all it counts.
C4_Witness ==
  /\ load_pc = "returned"
  /\ Len(InsertCalls) = 3
  /\ InsertCalls[1].outcome = "exception"
  /\ InsertCalls[2].outcome = "row_errors"
  /\ InsertCalls[3].outcome = "accepted"
  /\ inserted = Len(InsertCalls[3].batch)
  /\ inserted > 0

(***************************************************************************)
(* Claims about the Mailbox Crawler (checked under SpecCrawl).             *)
(***************************************************************************)
\* C2: no identifier of the existing set is ever put in a detail-fetch
\* sub-batch (no detail request is issued for it), kept in the crawl's dict or
\* returned by the crawl.
C2_DedupBeforeDetail ==
  /\ Range(new_msg_ids) \cap existing_email_ids = {}
  /\ requested \cap existing_email_ids = {}
  /\ Range(email_data) \cap existing_email_ids = {}
  /\ Range(crawl_result) \cap existing_email_ids = {}

\* A crawl has returned records after the provider listed an identifier of
\* the existing set along with new ones.
C2_Witness ==
  /\ crawl_pc = "returned"
  /\ listed_ids \cap existing_email_ids # {}
  /\ requested # {}
  /\ crawl_result # <<>>

\* C6: after a listing page without next-page token the crawl requests no
\* further page and goes on to return (it is returning, or still in that
\* page's sub-batches), and when it has returned, every record fetched from
\* the pages before that page is in the output.
C6_PaginationTermination ==
  /\ calls_after_last = 0
  /\ last_page_seen => crawl_pc \in {"details", "returned"}
  /\ (crawl_pc = "returned" /\ last_page_seen) => fetched_prev \subseteq Range(crawl_result)

\* The part of C6 the code keeps: no request after the last page, and the
\* records of the earlier pages returned unless an error ended the crawl.
C6_TerminationPart ==
  /\ calls_after_last = 0
  /\ last_page_seen => crawl_pc \in {"details", "returned"}
  /\ (crawl_pc = "returned" /\ last_page_seen /\ crawl_abort = "none")
       => fetched_prev \subseteq Range(crawl_result)

\* C9: a detail fetch that fails, with whatever error, does not end the crawl,
\* and a crawl that no listing or credential error ended returns the record
\* of every identifier whose detail fetch succeeded.
C9_DetailFailureIsolation ==
  /\ crawl_abort # "detail"
  /\ (crawl_pc = "returned" /\ crawl_abort \notin {"listing", "creds", "expired"})
       => fetched_ok \subseteq Range(crawl_result)

\* The part of C9 the code keeps: an HttpError drops its identifier only.
C9_HttpErrorPart ==
  (crawl_pc = "returned" /\ crawl_abort = "none")
    => /\ fetched_ok \subseteq Range(crawl_result)
       /\ Range(crawl_result) \subseteq fetched_ok

(***************************************************************************)
(* Claims about the Existing-Identifier Cache (checked under SpecCache).   *)
(***************************************************************************)
\* C5: of calls made one after the other, a call made less than the time to
\* live after the call that made the last warehouse query makes no warehouse
\* query and returns the set that query gave; a call made when the time to
\* live has passed makes exactly one warehouse query.
C5_CacheTTL ==
  \A c \in Callers :
    call_pc[c] = "returned" /\ call_prev[c].present =>
      IF call_time[c] - call_prev[c].stamp < timeout
      THEN call_queried[c] = 0 /\ call_result[c] = call_prev[c].result
      ELSE call_queried[c] = 1

\* Three calls have been made and two of them queried the warehouse (one was
\* served from the cache); the last one, made when the time to live of the
\* earlier query had passed, queried again, and the table had grown since.
C5_Witness ==
  /\ call_count = 3
  /\ queries = 2
  /\ call_pc["c1"] = "returned"
  /\ call_queried["c1"] = 1
  /\ call_time["c1"] - call_prev["c1"].stamp >= timeout
  /\ call_prev["c1"].result # warehouse

(***************************************************************************)
(* Claims about the Tenant Pipeline Orchestrator (checked under Spec).     *)
(***************************************************************************)
RaisedTasks == {k \in 1..Len(task) : task[k].state = "raised"}

BootFailed == boot \in {"key_failed", "client_failed"}

\* C1: a run in which exactly one tenant task raised ends with the success
\* response, and the total it reports is the sum of the other tasks' counts
\* (the task that raised counting 0).
C1_FailureIsolation ==
  (run_pc = "ended" /\ Cardinality(RaisedTasks) = 1) =>
    /\ status = "success"
    /\ reported_total = SumCounts(task)

\* C7: when a run has ended, by whatever path, the removal of every temporary
\* file it wrote has been attempted.
C7_CleanupOnAllExits ==
  run_pc = "ended" => written \subseteq attempted

\* The part of C7 the code keeps: a run that reaches the success response has
\* tried to remove the key and the files of the resolved artifacts, and stays
\* a success whether or not a removal failed.
C7_SuccessPathPart ==
  (run_pc = "ended" /\ status = "success") =>
    (Range(token_paths) \cup {KeyFile}) \subseteq attempted

\* C8: a run ends with the error response only when initialize_clients
\* failed in it.
C8_FatalOnlyOnBootstrap ==
  status = "error" => BootFailed

\* The part of C8 the code keeps: without a task that raised, only a failed
\* bootstrap gives the error response, whatever contained failures occurred.
C8_ContainedFailuresPart ==
  (status = "error" /\ RaisedTasks = {}) => BootFailed

(***************************************************************************)
(* Claims about the thread pools (checked under SpecPool).                 *)
(***************************************************************************)
RECURSIVE SumActive(_)
SumActive(ts) ==
  IF ts = {} THEN 0
  ELSE LET t == CHOOSE x \in ts : TRUE IN inner_active[t] + SumActive(ts \ {t})

\* C10: at most MAX_WORKERS tenant tasks execute at once, each has at most 5
\* detail requests in flight, only an executing task has any, and so at most
\* MAX_WORKERS x 5 detail requests are in flight in all.
C10_BoundedConcurrency ==
  /\ Cardinality(Running) <= MAX_WORKERS
  /\ \A t \in PoolTasks : inner_active[t] <= InnerWorkers
  /\ \A t \in PoolTasks : inner_active[t] > 0 => t \in Running
  /\ SumActive(PoolTasks) <= MAX_WORKERS * InnerWorkers

\* Both bounds are met: MAX_WORKERS = 2 tasks execute, each with 5 requests
\* in flight and a sixth waiting, while a third task waits in the queue.
C10_Witness ==
  /\ MAX_WORKERS = 2
  /\ Cardinality(Running) = 2
  /\ \A t \in Running : inner_active[t] = InnerWorkers /\ inner_pending[t] > 0
  /\ \E t \in PoolTasks : pool_task[t] = "queued"
  /\ SumActive(PoolTasks) = 2 * InnerWorkers

(***************************************************************************)
(* Further claims about the Batch Loader (checked under SpecLoad).         *)
(***************************************************************************)
\* The time.sleep(1) calls made so far.
SleepCalls == SelectSeq(load_log, LAMBDA e : e.op = "sleep")

\* C18: the load's inserts and sleeps alternate, beginning with an insert: a
\* sleep follows each insert that is not the last and comes before the next
\* insert, whatever that insert answered; a load that has returned after
\* k >= 1 inserts ended with an insert and slept exactly k - 1 times.
C18_BatchPacing ==
  /\ \A n \in 1..Len(load_log) :
       load_log[n].op = IF n % 2 = 1 THEN "insert" ELSE "sleep"
  /\ (load_pc = "loop" /\ load_log # <<>>) => load_log[Len(load_log)].op = "sleep"
  /\ (load_pc = "returned" /\ Len(InsertCalls) >= 1) =>
       /\ load_log[Len(load_log)].op = "insert"
       /\ Len(SleepCalls) = Len(InsertCalls) - 1

\* A load has returned after 3 inserts and 2 sleeps; the first insert raised
\* and the second came back with row errors, and a sleep followed each.
C18_Witness ==
  /\ load_pc = "returned"
  /\ Len(InsertCalls) = 3
  /\ Len(SleepCalls) = 2
  /\ load_log[1].outcome = "exception"
  /\ load_log[2].op = "sleep"
  /\ load_log[3].outcome = "row_errors"
  /\ load_log[4].op = "sleep"

(***************************************************************************)
(* Further claims about the Mailbox Crawler (checked under SpecCrawl).     *)
(***************************************************************************)
NoDuplicates(s) == \A i, j \in 1..Len(s) : s[i] = s[j] => i = j

\* How often x occurs in s.
Occurrences(s, x) == Cardinality({k \in 1..Len(s) : s[k] = x})

\* C11: whatever pages the provider serves, with an identifier repeated within
\* a page or from one page to the next, the crawl's dict and the list it
\* returns hold at most one record per identifier.
C11_IdentifierUniqueness ==
  /\ NoDuplicates(email_data)
  /\ NoDuplicates(crawl_result)

\* A crawl of two pages has returned the record of an identifier once, that
\* was fetched on the first page and listed twice on the second, and none of
\* its detail fetches failed.
C11_Witness ==
  /\ crawl_pc = "returned"
  /\ crawl_abort = "none"
  /\ list_calls = 2
  /\ \E x \in Ids :
       /\ x \in fetched_prev
       /\ Occurrences(new_msg_ids, x) = 2
       /\ x \notin http_failed
       /\ Occurrences(crawl_result, x) = 1

\* C17: when a listing page comes without messages the crawl has returned
\* at once: it made no further listing request, took no pacing sleep after
\* that page (one after each page before it), fetched nothing more, and
\* returns the records fetched from the pages before it.
C17_EmptyPageEndsCrawl ==
  empty_page =>
    /\ crawl_pc = "returned"
    /\ crawl_abort = "none"
    /\ pauses = list_calls - 1
    /\ fetched_ok = fetched_prev
    /\ crawl_result = email_data
    /\ Range(crawl_result) = fetched_prev

\* A crawl has returned the records of its first page after a second page
\* that had no messages and carried a next-page token.
C17_Witness ==
  /\ empty_page
  /\ list_calls = 2
  /\ response_token # 0
  /\ pauses = 1
  /\ crawl_result # <<>>

(***************************************************************************)
(* Claims about one tenant's task (checked under SpecTask).                *)
(***************************************************************************)
IsPrefix(s, t) == Len(s) <= Len(t) /\ SubSeq(t, 1, Len(s)) = s

Positions(s, x) == {k \in 1..Len(s) : s[k] = x}

\* The places in a sub-batch at which the record of x can have been stored
\* first: its first place when none of its detail fetches has failed, else
\* any of its places.
FirstStoredAt(ids, x) ==
  IF x \in http_failed'
  THEN Positions(ids, x)
  ELSE {k \in Positions(ids, x) : \A q \in Positions(ids, x) : k <= q}

\* A page is requested with the token of the page before it (the model's
\* tokens count the pages), and when the sub-batches of that page are done.
PagesInOrder ==
  crawl_pc = "list" =>
    /\ next_page_token = list_calls
    /\ crawl_i >= Len(new_msg_ids)

\* In the dict, the records of the earlier pages stand before the records
\* first fetched on the page in hand.
EarlierPagesFirst ==
  \A i, j \in 1..Len(email_data) :
    (i < j /\ email_data[j] \in fetched_prev) => email_data[i] \in fetched_prev

\* The load is given the crawl's output, and its k-th batch is the k-th
\* contiguous slice of BATCH_SIZE records of it.
BatchesAreSlices ==
  load_pc \in {"call", "loop", "returned", "raised"} =>
    /\ emails = crawl_result
    /\ \A k \in 1..Len(InsertCalls) :
         InsertCalls[k].batch =
           SubSeq(emails, (k - 1) * BATCH_SIZE + 1, Min(k * BATCH_SIZE, Len(emails)))
    /\ load_pc = "returned" => ConcatBatches(InsertCalls) = crawl_result

\* A step of the crawl leaves the records it holds in their places and puts
\* the records it stores for the first time after them, in the order in
\* which their responses stand in the sub-batch.
DiscoveryOrderStep ==
  crawl_pc \in {"creds", "list", "details"} =>
    LET batch_ids == Slice(new_msg_ids, crawl_i, crawl_i + batch_size)
        added == SubSeq(email_data', Len(email_data) + 1, Len(email_data'))
    IN
      /\ IsPrefix(email_data, email_data')
      /\ crawl_abort' = "none" => Range(added) = fetched_ok' \ fetched_ok
      /\ \A i, j \in 1..Len(added) :
           i < j => \E p \in FirstStoredAt(batch_ids, added[i]),
                       q \in FirstStoredAt(batch_ids, added[j]) : p < q

UsesWarehouse == run_pc \in {"existing", "listing", "download", "dispatch", "tasks"}

\* C13: in every run of the process, the first and the later ones, the
\* warehouse's key has been downloaded in that run (once: a run initializes
\* once) and is on disk while the run uses the warehouse.
C13_CredentialOncePerRun ==
  UsesWarehouse =>
    /\ KeyFile \in written
    /\ KeyFile \in files

\* The part of C13 the code keeps: the run in which the clients are built
\* downloads the key and has it on disk while it uses the warehouse.
C13_FirstRunPart ==
  (UsesWarehouse /\ boot = "ok") =>
    /\ KeyFile \in written
    /\ KeyFile \in files

\* The listed artifacts seen so far whose credential was resolved: the token
\* was downloaded and is valid, or was refreshed.
ResolvedArtifacts ==
  {k \in 1..Len(download_log) : download_log[k] \in {"valid", "refreshed"}}

\* C15: the paths a run collects are those of the resolved artifacts, each
\* once and in the listing's order; one task is dispatched for each of them
\* and none for an artifact that was skipped by its name, is expired without
\* refresh token or failed to download; the total is the sum of the tasks'
\* counts; no unresolved artifact gives the error response, and a run whose
\* artifacts are all unresolved ends in success with a total of 0.
C15_DispatchMatchesResolved ==
  /\ Range(token_paths) = ResolvedArtifacts
  /\ \A i, j \in 1..Len(token_paths) : i < j => token_paths[i] < token_paths[j]
  /\ run_pc \in {"tasks", "cleanup", "ended"} => Len(task) = Cardinality(ResolvedArtifacts)
  /\ status = "success" => reported_total = SumCounts(task)
  /\ status = "error" => (BootFailed \/ RaisedTasks # {})
  /\ (run_pc = "ended" /\ download_log # <<>> /\ ResolvedArtifacts = {})
       => (status = "success" /\ reported_total = 0)

\* A run has ended in success that listed two artifacts, failed to download
\* the first and resolved the second: it ran one task, whose 2 records are
\* the total.
C15_Witness ==
  /\ run_pc = "ended"
  /\ status = "success"
  /\ download_log = <<"download_failed", "valid">>
  /\ token_paths = <<2>>
  /\ Len(task) = 1
  /\ reported_total = 2

(***************************************************************************)
(* Further claims about the Existing-Identifier Cache (checked under       *)
(* SpecCache: calls made one after the other, one for each run).           *)
(***************************************************************************)
\* C14: a call that follows a failed warehouse query (the call of a later
\* run) queries the warehouse again: the empty set of the failure serves the
\* run of the failure only.
C14_QueryFailureScopedToRun ==
  \A c \in Callers :
    (call_pc[c] = "returned" /\ call_prev[c].present /\ call_prev[c].failed)
      => call_queried[c] = 1

\* The part of C14 the code keeps: the call whose query fails returns the
\* empty set, and a call made when the time to live of the failed query has
\* passed queries again.
C14_DegradedPart ==
  \A c \in Callers :
    /\ (call_pc[c] = "returned" /\ call_queried[c] = 1 /\ last_query.failed)
         => call_result[c] = {}
    /\ (call_pc[c] = "returned" /\ call_prev[c].present /\ call_prev[c].failed
          /\ call_time[c] - call_prev[c].stamp >= timeout)
         => call_queried[c] = 1

(***************************************************************************)
(* Claims about concurrent calls through the cache (checked under          *)
(* SpecCacheConcurrent).                                                   *)
(***************************************************************************)
\* C16: however the calls interleave, the warehouse is queried at most once
\* in a window of the time to live; stated for the window that opens when the
\* process starts: while the clock is below the time to live, at most one
\* query has been made.
C16_SingleQueryPerWindow ==
  now < timeout => queries <= 1

(***************************************************************************)
(* Claims about runs made one after the other (checked under               *)
(* SpecRunSequence).                                                       *)
(***************************************************************************)
\* C19: as long as no existence query and no insert has failed, the runs of
\* the process have inserted at most one row for any identifier.
C19_NoReinsertAcrossRuns ==
  failures = {} => \A id \in Ids : inserted_rows[id] <= 1

\* The part of C19 the code keeps: a run whose call queried the warehouse
\* successfully works with the identifiers the warehouse then held.
C19_FreshQueryPart ==
  \A c \in Callers :
    (call_pc[c] = "returned" /\ call_queried[c] = 1 /\ ~last_query.failed)
      => call_result[c] = warehouse

(***************************************************************************)
(* Claims about the authorization tool and the service together (checked   *)
(* under SpecUpload).                                                      *)
(***************************************************************************)
\* The artifacts of the folder that the run in hand has been through.
Seen == {k \in 1..Len(download_log) : k <= Len(drive)}

\* C20: no artifact that the authorization tool uploaded is skipped by a run
\* as a key file on account of its name.
C20_ToolNamesAccepted ==
  \A k \in Seen : drive[k].by_tool => download_log[k] # "skipped"

\* The part of C20 the code keeps: an artifact is skipped by its name exactly
\* when the name ends in ".json", so a token put into the folder under a name
\* without that suffix is downloaded.
C20_SuffixPart ==
  \A k \in Seen :
    download_log[k] = "skipped" <=> EndsWith(drive[k].name, JsonSuffix)

====
